---- MODULE Spec2Model ----
(***************************************************************************)
(* lld/COFF/LTO.cpp: BitcodeCompiler.                                      *)
(*                                                                         *)
(* add(f) gives the LTO library one resolution per symbol of a bitcode     *)
(* file and undefines the linker-wide symbols the file's definitions       *)
(* prevail for.  compile() runs the library over the merged modules,       *)
(* through the cache when /lldltocache is given, prunes the cache and      *)
(* returns the native objects.                                             *)
(***************************************************************************)
EXTENDS Integers, Sequences, FiniteSets, TLC

(***************************************************************************)
(* Bounds of the model.                                                    *)
(***************************************************************************)
\* bitcode files of the link
NumFiles == 2
\* symbols one bitcode file reports
MaxSyms == 2
\* symbols all bitcode files report together
MaxOcc == 3
\* tasks of one compile() (ltoObj->getMaxTasks())
MaxTasks == 3
\* distinct fingerprints the tasks of a link can have
NumKeys == 2
\* links (BitcodeCompiler instances) that share one cache directory
MaxLinks == 2

Files == 1..NumFiles
\* symbol names
Names == {"foo", "bar"}
\* a file of the link that is no bitcode file (a native object)
NativeFile == NumFiles + 1
\* Symbol::getFile() of a symbol that no file defines
NoFile == 0

(***************************************************************************)
(* State.                                                                  *)
(***************************************************************************)
VARIABLES
  objSyms,    \* objSyms[f]: f.obj->symbols(), each [name, isUndefined]
  symtab,     \* the linker-wide symbol table: name -> Symbol
  symtab0,    \* the symbol table as add() first found it (history)
  addFile,    \* the file add() is working on, NoFile outside add()
  symNum,     \* add()'s loop counter
  resols,     \* resols[f]: the resolutions add(f) has computed
  ltoObj,     \* what ltoObj->add() was given, in call order
  units,      \* units[t]: fingerprint of task t's input, NoCode for none
  ltoCachePolicy, \* config->ltoCachePolicy: entries the cache may keep
  cacheStore, \* the cache directory: [key, obj] entries, oldest first
  links,      \* compile() calls started so far, one per link
  pc,         \* where compile() is: "idle", "run", "done"
  ltoCache,   \* config->ltoCache of the running link
  buf,        \* buf[t]: the in-memory object of task t
  files,      \* files[t]: the cache file of task t
  taskState,  \* taskState[t]: "pending", "compiling", "done"
  order,      \* tasks in the order they completed (history)
  hitTasks,   \* tasks served from the cache in this run (history)
  backendRuns, \* backend invocations of this run (history)
  evicted,    \* entries pruneCache removed in this run (history)
  ret,        \* what compile() returned, each blob with its origin
  prev,       \* the previous link's compile(): cache use and result
  saveTemps,  \* config->saveTemps
  saved,      \* the files saveBuffer() wrote in this run, in order
  pruneRuns,  \* calls of pruneCache in this run (history)
  compiledTasks, \* tasks the backend was invoked for in this run (history)
  readFailed, \* tasks whose cache entry could not be read (history)
  keyLog,     \* fingerprints in the order the cache committed them (history)
  changes     \* times the link's modules were exchanged (history)

addVars == <<objSyms, symtab, symtab0, addFile, symNum, resols, ltoObj>>

compileVars ==
  <<units, ltoCachePolicy, cacheStore, links, pc, ltoCache, buf, files,
    taskState, order, hitTasks, backendRuns, evicted, ret, prev,
    saveTemps, saved, pruneRuns, compiledTasks, readFailed, keyLog, changes>>

vars == <<addVars, compileVars>>

(***************************************************************************)
(* Symbols.                                                                *)
(***************************************************************************)
ObjSymbol == [name : Names, isUndefined : BOOLEAN]

SymLists == UNION {[1..n -> ObjSymbol] : n \in 0..MaxSyms}

RECURSIVE SumLen(_, _)
SumLen(m, n) == IF n = 0 THEN 0 ELSE Len(m[n]) + SumLen(m, n - 1)

\* f has a defining occurrence of n
Defines(m, f, n) ==
  \E i \in 1..Len(m[f]) : m[f][i].name = n /\ ~m[f][i].isUndefined

\* f has an occurrence of n
Mentions(m, f, n) == \E i \in 1..Len(m[f]) : m[f][i].name = n

\* Symbol::getFile(): the file of a defined symbol, none for an Undefined
getFile(s) == s.file

\* BitcodeFile::getSymbols(): the linker-wide symbol of each occurrence
symBodies(f) == [i \in 1..Len(objSyms[f]) |-> objSyms[f][i].name]

\* the linker-wide symbols the symbol table can hold when LTO starts: a name
\* is defined by a bitcode file that defines it or by a native file (which
\* also uses it), and is undefined only when no bitcode file defines it; a
\* name no bitcode file mentions is never looked at
SymbolsFor(m, n) ==
  IF \A f \in Files : ~Mentions(m, f, n)
  THEN {[kind |-> "Undefined", name |-> n, file |-> NoFile,
         isUsedInRegularObj |-> FALSE]}
  ELSE {[kind |-> "Defined", name |-> n, file |-> f, isUsedInRegularObj |-> u] :
          f \in {g \in Files : Defines(m, g, n)}, u \in BOOLEAN}
       \cup
       {[kind |-> "Defined", name |-> n, file |-> NativeFile,
         isUsedInRegularObj |-> TRUE]}
       \cup
       {[kind |-> "Undefined", name |-> n, file |-> NoFile,
         isUsedInRegularObj |-> u] :
          u \in {b \in BOOLEAN : \A g \in Files : ~Defines(m, g, n)}}

(***************************************************************************)
(* add().                                                                  *)
(***************************************************************************)
\* replaceSymbol<Undefined>(s, s->getName())
undefineKeepsFile(s) == [s EXCEPT !.kind = "Undefined"]

undefine(s) ==
  [kind |-> "Undefined", name |-> s.name, file |-> NoFile,
   isUsedInRegularObj |-> s.isUsedInRegularObj]

\* r.Prevailing = !objSym.isUndefined() && sym->getFile() == &f
PrevailingIgnoresFile(objSym, sym, f) == ~objSym.isUndefined

PrevailingIgnoresUndefined(objSym, sym, f) == getFile(sym) = f

PrevailingAnyBitcode(objSym, sym, f) ==
  ~objSym.isUndefined /\ getFile(sym) \in Files

Prevailing(objSym, sym, f) == ~objSym.isUndefined /\ getFile(sym) = f

\* r.VisibleToRegularObj = sym->isUsedInRegularObj
VisibleOnlyIfDefined(sym) == sym.isUsedInRegularObj /\ sym.kind = "Defined"

VisibleToRegularObj(sym) == sym.isUsedInRegularObj

\* if (r.Prevailing) undefine(sym)
UndefineAlways(st, n, r) == [st EXCEPT ![n] = undefine(st[n])]

UndefineIfPrevailing(st, n, r) ==
  IF r.Prevailing THEN [st EXCEPT ![n] = undefine(st[n])] ELSE st

\* std::vector<lto::SymbolResolution> resols(symBodies.size())
NewResols(f) ==
  [i \in 1..Len(symBodies(f)) |->
     [Prevailing |-> FALSE, VisibleToRegularObj |-> FALSE]]

\* the files add() has been called for and returned from
Added == {ltoObj[i].file : i \in 1..Len(ltoObj)}

\* add(f) starts: the locals of the call
AddBegin(f) ==
  /\ addFile = NoFile
  /\ f \notin Added
  /\ addFile' = f
  /\ symNum' = 0
  /\ resols' = [resols EXCEPT ![f] = NewResols(f)]
  /\ UNCHANGED <<objSyms, symtab, symtab0, ltoObj>>
  /\ UNCHANGED compileVars

\* one turn of the loop over obj.symbols()
AddSymbol ==
  /\ addFile \in Files
  /\ symNum < Len(objSyms[addFile])
  /\ LET f == addFile
         objSym == objSyms[f][symNum + 1]
         n == symBodies(f)[symNum + 1]
         sym == symtab[n]
         r == [Prevailing |-> Prevailing(objSym, sym, f),
               VisibleToRegularObj |-> VisibleToRegularObj(sym)]
     IN /\ resols' = [resols EXCEPT ![f][symNum + 1] = r]
        /\ symtab' = UndefineIfPrevailing(symtab, n, r)
  /\ symNum' = symNum + 1
  /\ UNCHANGED <<objSyms, symtab0, addFile, ltoObj>>
  /\ UNCHANGED compileVars

\* checkError(ltoObj->add(std::move(f.obj), resols))
AddFinishBeforeLoop ==
  /\ addFile \in Files
  /\ addFile \notin Added
  /\ symNum = 0
  /\ ltoObj' = Append(ltoObj, [file |-> addFile, resols |-> resols[addFile]])
  /\ UNCHANGED <<objSyms, symtab, symtab0, addFile, symNum, resols>>
  /\ UNCHANGED compileVars

AddFinish ==
  /\ addFile \in Files
  /\ symNum = Len(objSyms[addFile])
  /\ ltoObj' = Append(ltoObj, [file |-> addFile, resols |-> resols[addFile]])
  /\ addFile' = NoFile
  /\ UNCHANGED <<objSyms, symtab, symtab0, symNum, resols>>
  /\ UNCHANGED compileVars

(***************************************************************************)
(* compile().                                                              *)
(***************************************************************************)
Keys == 1..NumKeys
\* the fingerprint position of a task that has nothing to compile
NoCode == 0
\* config->ltoCache: empty, or the path of the cache directory
NoCachePath == ""
CachePaths == {NoCachePath, "lto.cache"}

\* std::unique_ptr<MemoryBuffer>: null, or a buffer over a cache file
NullFile == [present |-> FALSE, data |-> <<>>]

\* the native object the backend produces for the input with fingerprint k
Obj(k) == <<"obj", k>>

\* the state of a BitcodeCompiler that has not compiled
IdleCompile ==
  /\ pc = "idle"
  /\ ltoCache = NoCachePath
  /\ buf = <<>>
  /\ files = <<>>
  /\ taskState = <<>>
  /\ order = <<>>
  /\ hitTasks = {}
  /\ backendRuns = 0
  /\ evicted = 0
  /\ ret = <<>>
  /\ prev = [ran |-> FALSE, cache |-> NoCachePath, evicted |-> 0, ret |-> <<>>]
  /\ saved = <<>>
  /\ pruneRuns = 0
  /\ compiledTasks = {}
  /\ readFailed = {}
  /\ keyLog = <<>>
  /\ changes = 0

\* unsigned maxTasks = ltoObj->getMaxTasks()
maxTasks == Len(units)

\* if (!config->ltoCache.empty()) cache = check(lto::localCache(...))
CacheNever(path) == FALSE

CacheEnabled(path) == path # NoCachePath

\* [&](size_t task, std::unique_ptr<MemoryBuffer> mb) { files[task] = mb; }
AddBufferFirstSlot(fs, task, mb) ==
  [fs EXCEPT ![1] = [present |-> TRUE, data |-> mb]]

AddBuffer(fs, task, mb) ==
  [fs EXCEPT ![task] = [present |-> TRUE, data |-> mb]]

\* [&](size_t task) { return stream over buf[task]; }, then written
AddStream(b, task, obj) == [b EXCEPT ![task] = obj]

\* the cache holds an entry for fingerprint k
InCache(store, k) == \E j \in 1..Len(store) : store[j].key = k

\* the object the cache holds for fingerprint k
Cached(store, k) ==
  store[CHOOSE j \in 1..Len(store) : store[j].key = k].obj

\* the cache commits the object compiled for fingerprint k
CacheWrite(store, k, obj) ==
  IF InCache(store, k) THEN store
  ELSE Append(store, [key |-> k, obj |-> obj])

\* if (!config->ltoCache.empty()) pruneCache(ltoCache, ltoCachePolicy)
PruneCache(store, path, policy) ==
  IF path # NoCachePath /\ Len(store) > policy
  THEN SubSeq(store, Len(store) - policy + 1, Len(store))
  ELSE store

\* for (i = 0; i != maxTasks; ++i) if (!buf[i].empty()) ret.emplace_back(buf[i])
RECURSIVE FreshKeepsEmpty(_, _)
FreshKeepsEmpty(b, i) ==
  IF i > Len(b) THEN <<>>
  ELSE <<[data |-> b[i], from |-> "buf", task |-> i]>>
         \o FreshKeepsEmpty(b, i + 1)

RECURSIVE FreshObjects(_, _)
FreshObjects(b, i) ==
  IF i > Len(b) THEN <<>>
  ELSE (IF b[i] = <<>> THEN <<>>
        ELSE <<[data |-> b[i], from |-> "buf", task |-> i]>>)
         \o FreshObjects(b, i + 1)

\* for (file : files) if (file) ret.push_back(file->getBuffer())
RECURSIVE CachedDescending(_, _)
CachedDescending(fs, i) ==
  IF i > Len(fs) THEN <<>>
  ELSE CachedDescending(fs, i + 1)
         \o (IF ~fs[i].present THEN <<>>
             ELSE <<[data |-> fs[i].data, from |-> "file", task |-> i]>>)

RECURSIVE CachedObjects(_, _)
CachedObjects(fs, i) ==
  IF i > Len(fs) THEN <<>>
  ELSE (IF ~fs[i].present THEN <<>>
        ELSE <<[data |-> fs[i].data, from |-> "file", task |-> i]>>)
         \o CachedObjects(fs, i + 1)

\* the blobs of a returned sequence, without their origin
Blobs(r) == [j \in 1..Len(r) |-> r[j].data]

\* compile() up to the call of ltoObj->run(): the slots and the cache
CompileBegin(path) ==
  /\ pc \in {"idle", "done"}
  /\ links < MaxLinks
  /\ links' = links + 1
  /\ prev' = IF pc = "done"
             THEN [ran |-> TRUE, cache |-> ltoCache,
                   evicted |-> evicted, ret |-> Blobs(ret)]
             ELSE prev
  /\ ltoCache' = path
  /\ buf' = [t \in 1..maxTasks |-> <<>>]
  /\ files' = [t \in 1..maxTasks |-> NullFile]
  /\ taskState' = [t \in 1..maxTasks |-> "pending"]
  /\ order' = <<>>
  /\ hitTasks' = {}
  /\ backendRuns' = 0
  /\ evicted' = 0
  /\ ret' = <<>>
  /\ pc' = "run"
  /\ saved' = <<>>
  /\ pruneRuns' = 0
  /\ compiledTasks' = {}
  /\ readFailed' = {}
  /\ UNCHANGED <<units, ltoCachePolicy, cacheStore, saveTemps, keyLog, changes>>
  /\ UNCHANGED addVars

\* ltoObj->run(): task t is taken up.  A task without code produces nothing;
\* with a cache, a task whose fingerprint the cache holds is not compiled and
\* the cache hands its file to the AddBuffer callback; any other task goes
\* to the backend.
TaskStart(t) ==
  /\ pc = "run"
  /\ taskState[t] = "pending"
  /\ IF units[t] = NoCode
     THEN /\ taskState' = [taskState EXCEPT ![t] = "done"]
          /\ order' = Append(order, t)
          /\ UNCHANGED <<files, hitTasks, backendRuns, compiledTasks>>
     ELSE IF CacheEnabled(ltoCache) /\ InCache(cacheStore, units[t])
     THEN /\ files' = AddBuffer(files, t, Cached(cacheStore, units[t]))
          /\ hitTasks' = hitTasks \cup {t}
          /\ taskState' = [taskState EXCEPT ![t] = "done"]
          /\ order' = Append(order, t)
          /\ UNCHANGED <<backendRuns, compiledTasks>>
     ELSE /\ backendRuns' = backendRuns + 1
          /\ compiledTasks' = compiledTasks \cup {t}
          /\ taskState' = [taskState EXCEPT ![t] = "compiling"]
          /\ UNCHANGED <<files, hitTasks, order>>
  /\ UNCHANGED <<units, ltoCachePolicy, cacheStore, links, pc, ltoCache, buf,
                 evicted, ret, prev>>
  /\ UNCHANGED <<saveTemps, saved, pruneRuns, readFailed, keyLog, changes>>
  /\ UNCHANGED addVars

\* ltoObj->run(): the backend has compiled task t.  With a cache the object
\* is committed to the cache and its file goes to the AddBuffer callback;
\* without one it is written to the stream over buf[t].
TaskFinish(t) ==
  /\ pc = "run"
  /\ taskState[t] = "compiling"
  /\ IF CacheEnabled(ltoCache)
     THEN /\ cacheStore' = CacheWrite(cacheStore, units[t], Obj(units[t]))
          /\ keyLog' = IF InCache(cacheStore, units[t]) THEN keyLog
                        ELSE Append(keyLog, units[t])
          /\ files' = AddBuffer(files, t, Obj(units[t]))
          /\ UNCHANGED buf
     ELSE /\ buf' = AddStream(buf, t, Obj(units[t]))
          /\ UNCHANGED <<cacheStore, files, keyLog>>
  /\ taskState' = [taskState EXCEPT ![t] = "done"]
  /\ order' = Append(order, t)
  /\ UNCHANGED <<units, ltoCachePolicy, links, pc, ltoCache, hitTasks,
                 backendRuns, evicted, ret, prev>>
  /\ UNCHANGED <<saveTemps, saved, pruneRuns, compiledTasks, readFailed,
                 changes>>
  /\ UNCHANGED addVars

\* checkError(ltoObj->run(...)): an error of the run ends the link with a
\* fatal error, no error lets compile() go on
checkErrorIgnores(err) == "ok"

checkError(err) == IF err THEN "fatal" ELSE "ok"

\* if (!config->ltoCache.empty()) in front of pruneCache
PruneAlways(path) == TRUE

PruneNever(path) == FALSE

PruneWanted(path) == path # NoCachePath

\* config->outputFile, and the characters of Twine(i) and of ".lto.obj"
OutputFile == <<"a">>
DigitChars == <<"0", "1", "2", "3", "4", "5", "6", "7", "8", "9">>
LtoObjSuffix == <<".", "l", "t", "o", ".", "o", "b", "j">>

RECURSIVE Twine(_)
Twine(i) ==
  IF i < Len(DigitChars) THEN <<DigitChars[i + 1]>>
  ELSE Twine(i \div Len(DigitChars))
         \o <<DigitChars[(i % Len(DigitChars)) + 1]>>

\* outputFile + ".lto.obj" for i == 0, outputFile + Twine(i) + ".lto.obj"
\* otherwise; i is the index the code counts from 0
SaveNameBare(out, i) == out \o LtoObjSuffix

SaveName(out, i) ==
  IF i = 0 THEN out \o LtoObjSuffix
  ELSE out \o Twine(i) \o LtoObjSuffix

\* if (config->saveTemps) saveBuffer(buf[i], name) in the first loop; n is
\* the number of objects ret holds when the file is written
RECURSIVE SaveAllSlots(_, _, _, _)
SaveAllSlots(b, i, n, save) ==
  IF i > Len(b) THEN <<>>
  ELSE (IF ~save THEN <<>>
        ELSE <<[name |-> SaveName(OutputFile, i - 1), data |-> b[i],
                task |-> i, retLen |-> n]>>)
         \o SaveAllSlots(b, i + 1, IF b[i] = <<>> THEN n ELSE n + 1, save)

RECURSIVE SavedBuffers(_, _, _, _)
SavedBuffers(b, i, n, save) ==
  IF i > Len(b) THEN <<>>
  ELSE IF b[i] = <<>> THEN SavedBuffers(b, i + 1, n, save)
  ELSE (IF ~save THEN <<>>
        ELSE <<[name |-> SaveName(OutputFile, i - 1), data |-> b[i],
                task |-> i, retLen |-> n]>>)
         \o SavedBuffers(b, i + 1, n + 1, save)

\* compile() from pruneCache to return: the eviction, the two loops that
\* collect the objects and write the diagnostic files
Collect ==
  /\ pruneRuns' = IF PruneWanted(ltoCache) THEN pruneRuns + 1 ELSE pruneRuns
  /\ cacheStore' = IF PruneWanted(ltoCache)
                   THEN PruneCache(cacheStore, ltoCache, ltoCachePolicy)
                   ELSE cacheStore
  /\ evicted' = Len(cacheStore) - Len(cacheStore')
  /\ saved' = SavedBuffers(buf, 1, 0, saveTemps)
  /\ ret' = FreshObjects(buf, 1) \o CachedObjects(files, 1)
  /\ pc' = "done"
  /\ UNCHANGED <<units, ltoCachePolicy, links, ltoCache, buf, files,
                 taskState, order, hitTasks, backendRuns, prev>>
  /\ UNCHANGED <<saveTemps, compiledTasks, readFailed, keyLog, changes>>
  /\ UNCHANGED addVars

\* compile() after ltoObj->run() has returned without an error
CompileFinish ==
  /\ pc = "run"
  /\ \A t \in 1..maxTasks : taskState[t] = "done"
  /\ checkError(FALSE) = "ok"
  /\ Collect

\* the tasks whose compilation or whose cache write has failed
FailedTasks == {t \in 1..maxTasks : taskState[t] \in {"failed", "writeFailed"}}

\* compile() after ltoObj->run() has returned an error
CompileFails ==
  /\ pc = "run"
  /\ FailedTasks # {}
  /\ IF checkError(TRUE) = "fatal"
     THEN /\ pc' = "fatal"
          /\ UNCHANGED <<units, ltoCachePolicy, cacheStore, links, ltoCache,
                         buf, files, taskState, order, hitTasks, backendRuns,
                         evicted, ret, prev>>
          /\ UNCHANGED <<saveTemps, saved, pruneRuns, compiledTasks,
                         readFailed, keyLog, changes>>
          /\ UNCHANGED addVars
     ELSE Collect

\* the backend reports an error for task t
BackendError(t) ==
  /\ pc = "run"
  /\ taskState[t] = "compiling"
  /\ taskState' = [taskState EXCEPT ![t] = "failed"]
  /\ UNCHANGED <<units, ltoCachePolicy, cacheStore, links, pc, ltoCache, buf,
                 files, order, hitTasks, backendRuns, evicted, ret, prev>>
  /\ UNCHANGED <<saveTemps, saved, pruneRuns, compiledTasks, readFailed,
                 keyLog, changes>>
  /\ UNCHANGED addVars

\* the cache cannot commit the object compiled for task t
CacheWriteFails(t) ==
  /\ pc = "run"
  /\ taskState[t] = "compiling"
  /\ CacheEnabled(ltoCache)
  /\ taskState' = [taskState EXCEPT ![t] = "writeFailed"]
  /\ UNCHANGED <<units, ltoCachePolicy, cacheStore, links, pc, ltoCache, buf,
                 files, order, hitTasks, backendRuns, evicted, ret, prev>>
  /\ UNCHANGED <<saveTemps, saved, pruneRuns, compiledTasks, readFailed,
                 keyLog, changes>>
  /\ UNCHANGED addVars

\* the cache holds the entry of task t and cannot read it: the task goes to
\* the backend as on a miss
CacheReadFails(t) ==
  /\ pc = "run"
  /\ taskState[t] = "pending"
  /\ units[t] # NoCode
  /\ CacheEnabled(ltoCache)
  /\ InCache(cacheStore, units[t])
  /\ readFailed' = readFailed \cup {t}
  /\ backendRuns' = backendRuns + 1
  /\ compiledTasks' = compiledTasks \cup {t}
  /\ taskState' = [taskState EXCEPT ![t] = "compiling"]
  /\ UNCHANGED <<units, ltoCachePolicy, cacheStore, links, pc, ltoCache, buf,
                 files, order, hitTasks, evicted, ret, prev>>
  /\ UNCHANGED <<saveTemps, saved, pruneRuns, keyLog, changes>>
  /\ UNCHANGED addVars

\* the links whose compile() is not followed: any bitcode files, any table
InitAdd ==
  /\ objSyms \in {m \in [Files -> SymLists] : SumLen(m, NumFiles) <= MaxOcc}
  /\ symtab \in {st \in [Names -> UNION {SymbolsFor(objSyms, n) : n \in Names}] :
                   \A n \in Names : st[n] \in SymbolsFor(objSyms, n)}
  /\ symtab0 = symtab
  /\ addFile = NoFile
  /\ symNum = 0
  /\ resols = [f \in Files |-> <<>>]
  /\ ltoObj = <<>>
  /\ units = <<>>
  /\ ltoCachePolicy = 1
  /\ cacheStore = <<>>
  /\ links = 0
  /\ saveTemps = FALSE
  /\ IdleCompile

NextAdd ==
  \/ \E f \in Files : AddBegin(f)
  \/ AddSymbol
  \/ AddFinish

SpecAdd == InitAdd /\ [][NextAdd]_vars

\* the caller of BitcodeCompiler: add() for every bitcode file, then
\* compile()
LinkAdd(f) ==
  /\ pc = "idle"
  /\ AddBegin(f)

LinkCompile(path) ==
  /\ Added = Files
  /\ addFile = NoFile
  /\ CompileBegin(path)

\* a link from its first add() to the return of compile(): any bitcode
\* files, any table, one task
InitLink ==
  /\ objSyms \in {m \in [Files -> SymLists] : SumLen(m, NumFiles) < MaxOcc}
  /\ symtab \in {st \in [Names -> UNION {SymbolsFor(objSyms, n) : n \in Names}] :
                   \A n \in Names : st[n] \in SymbolsFor(objSyms, n)}
  /\ symtab0 = symtab
  /\ addFile = NoFile
  /\ symNum = 0
  /\ resols = [f \in Files |-> <<>>]
  /\ ltoObj = <<>>
  /\ units = <<NumKeys>>
  /\ ltoCachePolicy = 1
  /\ cacheStore = <<>>
  /\ links = MaxLinks - 1
  /\ saveTemps = FALSE
  /\ IdleCompile

NextLink ==
  \/ \E f \in Files : LinkAdd(f)
  \/ AddSymbol
  \/ AddFinish
  \/ \E path \in CachePaths : LinkCompile(path)
  \/ \E t \in 1..maxTasks : TaskStart(t)
  \/ \E t \in 1..maxTasks : TaskFinish(t)
  \/ CompileFinish

SpecLink == InitLink /\ [][NextLink]_vars

\* no bitcode file takes part
NoAdd ==
  /\ objSyms = [f \in Files |-> <<>>]
  /\ symtab = [n \in Names |->
                 [kind |-> "Undefined", name |-> n, file |-> NoFile,
                  isUsedInRegularObj |-> FALSE]]
  /\ symtab0 = symtab
  /\ addFile = NoFile
  /\ symNum = 0
  /\ resols = [f \in Files |-> <<>>]
  /\ ltoObj = <<>>

\* the links whose add() calls are not followed: any tasks, an empty cache
InitCompile ==
  /\ NoAdd
  /\ units \in UNION {[1..n -> Keys \cup {NoCode}] : n \in 1..MaxTasks}
  /\ ltoCachePolicy \in 1..NumKeys
  /\ cacheStore = <<>>
  /\ links = 0
  /\ saveTemps = FALSE
  /\ IdleCompile

NextCompile ==
  \/ \E path \in CachePaths : CompileBegin(path)
  \/ \E t \in 1..maxTasks : TaskStart(t)
  \/ \E t \in 1..maxTasks : TaskFinish(t)
  \/ CompileFinish

SpecCompile == InitCompile /\ [][NextCompile]_vars

\* the cache directories a link can find: what earlier links left after
\* their eviction under the policy
CacheStores(policy) ==
  {[j \in 1..Len(ks) |-> [key |-> ks[j], obj |-> Obj(ks[j])]] :
     ks \in {q \in UNION {[1..n -> Keys] : n \in 0..policy} :
               \A i, j \in 1..Len(q) : q[i] = q[j] => i = j}}

\* one link with any tasks, any cache directory and either setting of
\* /lldsavetemps
InitSave ==
  /\ NoAdd
  /\ units \in UNION {[1..n -> Keys \cup {NoCode}] : n \in 1..MaxTasks}
  /\ ltoCachePolicy = 1
  /\ cacheStore \in CacheStores(ltoCachePolicy)
  /\ links = MaxLinks - 1
  /\ saveTemps \in BOOLEAN
  /\ IdleCompile

SpecSave == InitSave /\ [][NextCompile]_vars

\* one link under /lldsavetemps whose run can fail
InitFaults ==
  /\ InitSave
  /\ saveTemps

NextFaults ==
  \/ NextCompile
  \/ \E t \in 1..maxTasks : BackendError(t)
  \/ \E t \in 1..maxTasks : CacheWriteFails(t)
  \/ \E t \in 1..maxTasks : CacheReadFails(t)
  \/ CompileFails

SpecFaults == InitFaults /\ [][NextFaults]_vars

\* the fingerprints of the links whose modules change from link to link
EvictKeys == 1..(NumKeys + 1)

\* a later link of other modules against the same cache directory: a new
\* BitcodeCompiler whose one task has fingerprint k
NewModules(k) ==
  /\ pc = "done"
  /\ changes < MaxLinks
  /\ changes' = changes + 1
  /\ units' = <<k>>
  /\ links' = MaxLinks - 1
  /\ pc' = "idle"
  /\ ltoCache' = NoCachePath
  /\ buf' = <<>>
  /\ files' = <<>>
  /\ taskState' = <<>>
  /\ order' = <<>>
  /\ hitTasks' = {}
  /\ backendRuns' = 0
  /\ evicted' = 0
  /\ ret' = <<>>
  /\ prev' = [ran |-> FALSE, cache |-> NoCachePath, evicted |-> 0,
              ret |-> <<>>]
  /\ saved' = <<>>
  /\ pruneRuns' = 0
  /\ compiledTasks' = {}
  /\ readFailed' = {}
  /\ UNCHANGED <<ltoCachePolicy, cacheStore, saveTemps, keyLog>>
  /\ UNCHANGED addVars

\* single-task links one after the other, an empty cache directory first
InitEvict ==
  /\ NoAdd
  /\ units \in {<<k>> : k \in EvictKeys}
  /\ ltoCachePolicy \in 1..NumKeys
  /\ cacheStore = <<>>
  /\ links = MaxLinks - 1
  /\ saveTemps = FALSE
  /\ IdleCompile

NextEvict ==
  \/ NextCompile
  \/ \E k \in EvictKeys : NewModules(k)

SpecEvict == InitEvict /\ [][NextEvict]_vars

(***************************************************************************)
(* Symbol resolution: the properties of add().                             *)
(***************************************************************************)
\* the occurrences add() has given a resolution so far: <<file, index>>
Resolved ==
  {o \in Files \X (1..MaxSyms) :
     /\ o[2] <= Len(objSyms[o[1]])
     /\ \/ o[1] \in Added
        \/ o[1] = addFile /\ o[2] <= symNum}

OccName(o) == objSyms[o[1]][o[2]].name

OccDefined(o) == ~objSyms[o[1]][o[2]].isUndefined

OccPrevailing(o) == resols[o[1]][o[2]].Prevailing

OccVisible(o) == resols[o[1]][o[2]].VisibleToRegularObj

\* the occurrences of name n that are marked prevailing
PrevailingOccs(n) == {o \in Resolved : OccName(o) = n /\ OccPrevailing(o)}

\* n has a defining occurrence in a file add() has returned from
DefinedInAdded(n) == \E f \in Added : Defines(objSyms, f, n)

\* the turn of add()'s loop that resolves occurrence symNum' of addFile
ResolvesOne == addFile \in Files /\ addFile' = addFile /\ symNum' = symNum + 1

\* C1 as stated: between add() calls, every name with a defining occurrence
\* in the added modules has exactly one prevailing occurrence, a defining
\* one, whatever file the linker-wide symbol table gives the name.
C1_ExactlyOnePrevailing ==
  addFile = NoFile =>
    \A n \in Names :
      DefinedInAdded(n) =>
        /\ Cardinality(PrevailingOccs(n)) = 1
        /\ \A o \in PrevailingOccs(n) : OccDefined(o)

\* C1 as amended: between add() calls, every name with a defining occurrence
\* in the added modules has at most one prevailing occurrence, a defining
\* one; it has exactly one precisely when the file the linker-wide symbol
\* table gave the name before LTO is one of the added bitcode files.
C1_PrevailingFollowsSymtab ==
  addFile = NoFile =>
    \A n \in Names :
      DefinedInAdded(n) =>
        /\ Cardinality(PrevailingOccs(n)) <= 1
        /\ \A o \in PrevailingOccs(n) : OccDefined(o)
        /\ Cardinality(PrevailingOccs(n)) = 1 <=> symtab0[n].file \in Added

\* two added modules define the same name and one occurrence prevails
C1_Witness ==
  /\ addFile = NoFile
  /\ \E n \in Names :
       /\ Cardinality({f \in Added : Defines(objSyms, f, n)}) >= 2
       /\ Cardinality(PrevailingOccs(n)) = 1

\* C2: an undefined occurrence is never marked prevailing, also when the
\* linker-wide symbol is the added module's own; a name that no module
\* defines has no prevailing occurrence.
C2_UndefinedNeverPrevailing ==
  /\ \A o \in Resolved : ~OccDefined(o) => ~OccPrevailing(o)
  /\ \A n \in Names :
       (\A f \in Files : ~Defines(objSyms, f, n)) => PrevailingOccs(n) = {}

\* an undefined occurrence was resolved while the linker-wide symbol of its
\* name still belonged to the module being added
C2_Witness ==
  \E o \in Resolved :
    /\ ~OccDefined(o)
    /\ o[1] = addFile
    /\ symtab[OccName(o)].file = addFile
    /\ ~OccPrevailing(o)

\* C3: no name has two prevailing occurrences; once an occurrence prevails
\* the linker-wide symbol is an Undefined without a file, so every later
\* occurrence of the name is non-prevailing.
C3_AtMostOnePrevailing ==
  \A n \in Names :
    /\ Cardinality(PrevailingOccs(n)) <= 1
    /\ PrevailingOccs(n) # {} =>
         symtab[n].kind = "Undefined" /\ symtab[n].file = NoFile

\* one module defines a name twice, the linker-wide symbol was the module's:
\* the first occurrence prevails, the second does not
C3_Witness ==
  \E f \in Files, n \in Names :
    /\ symtab0[n].file = f
    /\ <<f, 1>> \in Resolved /\ <<f, 2>> \in Resolved
    /\ OccName(<<f, 1>>) = n /\ OccName(<<f, 2>>) = n
    /\ OccDefined(<<f, 1>>) /\ OccDefined(<<f, 2>>)
    /\ OccPrevailing(<<f, 1>>) /\ ~OccPrevailing(<<f, 2>>)

\* C4: an occurrence of module f is marked prevailing if and only if it is
\* not undefined and the linker-wide symbol of its name belongs to f at
\* the moment the occurrence is resolved.
C4_PrevailingMirrorsSymtab ==
  [][ResolvesOne =>
       LET o == <<addFile, symNum'>>
       IN resols'[o[1]][o[2]].Prevailing
            = (OccDefined(o) /\ symtab[OccName(o)].file = addFile)]_vars

\* a defining occurrence was refused because the linker-wide symbol belonged
\* to another bitcode file, and a defining occurrence of that file prevailed
C4_Witness ==
  \E o \in Resolved, p \in Resolved :
    /\ OccName(o) = OccName(p) /\ o[1] # p[1]
    /\ OccDefined(o) /\ OccDefined(p)
    /\ symtab0[OccName(o)].file = p[1]
    /\ ~OccPrevailing(o) /\ OccPrevailing(p)

\* C5: resolving an occurrence as prevailing rewrites the linker-wide symbol
\* of its name to an Undefined of the same name; resolving it as
\* non-prevailing leaves the symbol as it was; no other symbol changes.
C5_UndefineExactlyPrevailing ==
  [][IF ResolvesOne
     THEN LET o == <<addFile, symNum'>>
              n == OccName(o)
          IN /\ resols'[o[1]][o[2]].Prevailing =>
                  /\ symtab'[n].kind = "Undefined"
                  /\ symtab'[n].name = n
                  /\ symtab'[n].file = NoFile
             /\ ~resols'[o[1]][o[2]].Prevailing => symtab'[n] = symtab[n]
             /\ \A m \in Names \ {n} : symtab'[m] = symtab[m]
     ELSE symtab' = symtab]_vars

\* one symbol was rewritten for a prevailing occurrence while the symbol of
\* a non-prevailing defining occurrence is still the defined one
C5_Witness ==
  \E o \in Resolved, p \in Resolved :
    /\ OccPrevailing(o)
    /\ symtab0[OccName(o)].kind = "Defined"
    /\ symtab[OccName(o)].kind = "Undefined"
    /\ OccDefined(p) /\ ~OccPrevailing(p)
    /\ symtab[OccName(p)].kind = "Defined"
    /\ symtab[OccName(p)] = symtab0[OccName(p)]

\* C6: the VisibleToRegularObj verdict of an occurrence is the
\* isUsedInRegularObj flag of its linker-wide symbol as read when the
\* occurrence is resolved, and add() never changes that flag.
C6_VisibleIsUsedInRegularObj ==
  [][(ResolvesOne =>
        resols'[addFile][symNum'].VisibleToRegularObj
          = symtab[OccName(<<addFile, symNum'>>)].isUsedInRegularObj)
     /\ (\A n \in Names :
           symtab'[n].isUsedInRegularObj = symtab[n].isUsedInRegularObj)]_vars

\* an undefined, non-prevailing occurrence is visible and a prevailing one
\* is not: the verdict follows the flag alone
C6_Witness ==
  \E o \in Resolved, p \in Resolved :
    /\ ~OccDefined(o) /\ ~OccPrevailing(o) /\ OccVisible(o)
    /\ symtab[OccName(o)].kind = "Undefined"
    /\ OccPrevailing(p) /\ ~OccVisible(p)

(***************************************************************************)
(* The objects compile() returns: the properties of compile().             *)
(***************************************************************************)
\* the positions of ret that hold an in-memory object, a cache file
FreshAt == {j \in 1..Len(ret) : ret[j].from = "buf"}

CachedAt == {j \in 1..Len(ret) : ret[j].from = "file"}

\* the tasks that have something to compile
CodeTasks == {t \in 1..maxTasks : units[t] # NoCode}

\* the tasks in the order the cache handed their files to compile()
RECURSIVE Materialized(_)
Materialized(o) ==
  IF o = <<>> THEN <<>>
  ELSE (IF files[Head(o)].present THEN <<Head(o)>> ELSE <<>>)
         \o Materialized(Tail(o))

\* the tasks of the cache files in the order ret holds them
RECURSIVE CachedTasks(_)
CachedTasks(r) ==
  IF r = <<>> THEN <<>>
  ELSE (IF Head(r).from = "file" THEN <<Head(r).task>> ELSE <<>>)
         \o CachedTasks(Tail(r))

\* some task completed before a task of lower index
OutOfOrder ==
  \E j, k \in 1..Len(order) : j < k /\ order[j] > order[k]

\* C7: in the returned sequence the in-memory objects stand in strictly
\* ascending task order, one for every task with a non-empty buffer and none
\* for an empty one, whatever order the tasks completed in; without a cache
\* these are the objects of exactly the tasks that have code.
C7_FreshAscendingNoEmpty ==
  pc = "done" =>
    /\ \A j, k \in FreshAt : j < k => ret[j].task < ret[k].task
    /\ {ret[j].task : j \in FreshAt} = {t \in 1..maxTasks : buf[t] # <<>>}
    /\ \A j \in FreshAt : ret[j].data = buf[ret[j].task] /\ ret[j].data # <<>>
    /\ ltoCache = NoCachePath =>
         /\ {ret[j].task : j \in FreshAt} = CodeTasks
         /\ \A j \in FreshAt : ret[j].data = Obj(units[ret[j].task])
         /\ Len(ret) = Cardinality(CodeTasks)

\* three tasks, one of them empty, completed out of index order: two blobs
C7_Witness ==
  /\ pc = "done"
  /\ ltoCache = NoCachePath
  /\ maxTasks = 3
  /\ Cardinality(CodeTasks) = 2
  /\ \E j, k \in 1..Len(order) :
       /\ j < k /\ order[j] > order[k]
       /\ order[j] \in CodeTasks /\ order[k] \in CodeTasks
  /\ Len(ret) = 2

C9_WarmCacheRoundTrip ==
  (/\ pc = "done"
   /\ prev.ran /\ prev.cache # NoCachePath /\ prev.evicted = 0
   /\ ltoCache # NoCachePath) =>
    /\ backendRuns = 0
    /\ hitTasks = CodeTasks
    /\ Blobs(ret) = prev.ret

\* the second of two cached links: two tasks with different fingerprints
\* were served from the cache, out of index order
C9_Witness ==
  /\ pc = "done"
  /\ prev.ran /\ prev.cache # NoCachePath /\ prev.evicted = 0
  /\ ltoCache # NoCachePath
  /\ \E t, u \in hitTasks : units[t] # units[u]
  /\ OutOfOrder
  /\ Len(ret) >= 2

\* C10: for the same modules compile() returns the same blobs in the same
\* order whichever tasks the cache serves, all, some or none, and with
\* caching disabled: the objects of the tasks with code, in task order.
C10_HitsIndistinguishable ==
  pc = "done" =>
    /\ prev.ran => Blobs(ret) = prev.ret
    /\ Len(ret) = Cardinality(CodeTasks)
    /\ \A j \in 1..Len(ret) :
         /\ ret[j].task \in CodeTasks
         /\ ret[j].data = Obj(units[ret[j].task])
         /\ \A k \in 1..Len(ret) : j < k => ret[j].task < ret[k].task

\* a link in which the cache served one task and the backend compiled
\* another returned the blobs of the link before it
C10_Witness ==
  /\ pc = "done"
  /\ prev.ran
  /\ hitTasks # {}
  /\ backendRuns > 0
  /\ Len(ret) >= 2
  /\ Blobs(ret) = prev.ret

\* a link with caching disabled returned the blobs of a cached link
C10_WitnessNoCache ==
  /\ pc = "done"
  /\ prev.ran /\ prev.cache # NoCachePath
  /\ ltoCache = NoCachePath
  /\ Len(ret) >= 2

(***************************************************************************)
(* compile(): the eviction, failures and the slots.                        *)
(***************************************************************************)
\* every object the backend produced in this run is committed to the cache
WritesCommitted ==
  \A t \in compiledTasks : InCache(cacheStore, units[t])

\* C11: within one compile() the cache is pruned only in a step that finds
\* every task done and every object compiled in this run committed to the
\* cache; a compile() that returns has pruned exactly once when
\* config->ltoCache is set and never when it is empty, and a compile() that
\* ended in the fatal error has not pruned.
C11_PruneOnceAfterDispatch ==
  [][ ((pc = "run" /\ pruneRuns' # pruneRuns) =>
         (/\ pruneRuns' = pruneRuns + 1
          /\ \A t \in 1..maxTasks : taskState[t] = "done"
          /\ WritesCommitted))
      /\ (pc' = "done" =>
            pruneRuns' = (IF ltoCache' # NoCachePath THEN 1 ELSE 0))
      /\ (pc' = "fatal" => pruneRuns' = 0) ]_vars

C11_Witness ==
  /\ pc = "done"
  /\ pruneRuns = 1
  /\ Cardinality(compiledTasks) >= 2
  /\ evicted >= 1

\* the tasks for which the backend reported an error
BackendFailed == {t \in 1..Len(taskState) : taskState[t] = "failed"}

\* C12: once the backend has reported an error for a task, compile() does
\* not return: it is running or has ended in the fatal error, it has
\* returned no object, written no diagnostic file and pruned nothing, also
\* when other tasks had completed.
C12_BackendErrorIsFatal ==
  BackendFailed # {} =>
    /\ pc \in {"run", "fatal"}
    /\ ret = <<>>
    /\ saved = <<>>
    /\ pruneRuns = 0
    /\ evicted = 0

C12_Witness ==
  /\ pc = "fatal"
  /\ saveTemps
  /\ BackendFailed # {}
  /\ \E t \in 1..maxTasks : taskState[t] = "done" /\ buf[t] # <<>>

\* the slots a step writes
WrittenSlots ==
  {s \in 1..Len(buf) : buf'[s] # buf[s] \/ files'[s] # files[s]}

\* C13: while ltoObj->run() is under way the slot arrays keep the size
\* maxTasks they got before the dispatch, and a slot of buf or files is
\* written only in the step that completes the task of the same index, which
\* completes no other task: no slot is written by two tasks, in any
\* interleaving.
C13_OwnSlotOnly ==
  [][ pc = "run" =>
        (/\ Len(buf) = maxTasks /\ Len(files) = maxTasks
         /\ Len(buf') = maxTasks /\ Len(files') = maxTasks
         /\ \A s \in WrittenSlots :
              /\ taskState[s] # "done"
              /\ taskState'[s] = "done"
              /\ \A u \in 1..maxTasks \ {s} : taskState'[u] = taskState[u]) ]_vars

C13_Witness ==
  /\ pc = "run"
  /\ Len(order) >= 2
  /\ order[1] > order[2]
  /\ files[order[1]].present
  /\ files[order[2]].present
  /\ \E t \in 1..maxTasks : taskState[t] = "compiling"

(***************************************************************************)
(* Symbol resolution and compile() in one link.                            *)
(***************************************************************************)
\* C14 as stated: a verdict of a module is computed only when every other
\* module has been registered by its add().
C14_ResolvedWithAllRegistered ==
  [][ (addFile \in Files /\ symNum' = symNum + 1) =>
        (Files \ {addFile}) \subseteq Added ]_vars

\* C14: symbol resolution is finished before compile() dispatches: once
\* compile() has started no verdict is assigned or changed, no symbol-table
\* entry is rewritten and no module is registered, and compile() starts with
\* every module registered.  Resolution runs inside each add(): the verdicts
\* of a module change only during its own add() call, before the module is
\* handed to the LTO object, whatever other modules have been added by then.
C14_ResolutionInsideEachAdd ==
  [][ (pc # "idle" =>
         (resols' = resols /\ symtab' = symtab /\ ltoObj' = ltoObj))
      /\ ((pc = "idle" /\ pc' = "run") =>
            (Added = Files /\ addFile = NoFile
             /\ \A i \in 1..Len(ltoObj) :
                  ltoObj[i].resols = resols[ltoObj[i].file]))
      /\ (\A f \in Files :
            resols'[f] # resols[f] => (addFile' = f /\ f \notin Added')) ]_vars

C14_Witness ==
  /\ pc = "run"
  /\ taskState[1] = "compiling"
  /\ Len(ltoObj) = NumFiles
  /\ \E n \in Names : PrevailingOccs(n) # {}
  /\ \E n \in Names : symtab[n] # symtab0[n]

(***************************************************************************)
(* compile(): the cache in front of the backend.                           *)
(***************************************************************************)
\* ret holds the object of task t
Returned(t) ==
  \E j \in 1..Len(ret) : ret[j].task = t /\ ret[j].data = Obj(units[t])

\* C15: with config->ltoCache set, a task served from the cache is not sent
\* to the backend and its slot holds the cached buffer; every other task
\* with code is sent to the backend exactly once, its object is committed
\* under its fingerprint and sits in its slot; when the dispatch has
\* succeeded the cache, not yet pruned, holds an entry for the fingerprint
\* of every task with code, and compile() returns the object of each.
C15_HitSkipsBackendMissStores ==
  (ltoCache # NoCachePath /\ pc \in {"run", "done"}) =>
    /\ hitTasks \cap compiledTasks = {}
    /\ backendRuns = Cardinality(compiledTasks)
    /\ \A t \in CodeTasks :
         taskState[t] = "done" =>
           /\ (t \in hitTasks) # (t \in compiledTasks)
           /\ files[t].present
           /\ buf[t] = <<>>
           /\ pc = "run" =>
                (/\ InCache(cacheStore, units[t])
                 /\ files[t].data = Cached(cacheStore, units[t]))
           /\ pc = "done" => Returned(t)

C15_Witness ==
  /\ ltoCache # NoCachePath
  /\ pc = "run"
  /\ \A t \in 1..maxTasks : taskState[t] = "done"
  /\ hitTasks # {}
  /\ compiledTasks # {}
  /\ readFailed = {}
  /\ Len(cacheStore) > ltoCachePolicy

\* the tasks whose object the cache could not commit
WriteFailed == {t \in 1..Len(taskState) : taskState[t] = "writeFailed"}

\* C16: a task whose cache entry cannot be read goes to the backend like a
\* miss and a compile() that returns holds its object; once a cache write
\* has failed compile() does not return and has returned no object.
C16_ReadFailureIsMissWriteFailureFatal ==
  /\ \A t \in readFailed :
       /\ t \in compiledTasks
       /\ t \notin hitTasks
       /\ pc = "done" => Returned(t)
  /\ WriteFailed # {} =>
       (pc \in {"run", "fatal"} /\ ret = <<>>)

C16_Witness ==
  /\ pc = "done"
  /\ readFailed # {}
  /\ hitTasks # {}
  /\ \A t \in readFailed : Returned(t)

C16_WitnessFatal ==
  /\ pc = "fatal"
  /\ WriteFailed # {}
  /\ BackendFailed = {}
  /\ \E t \in 1..maxTasks : files[t].present

(***************************************************************************)
(* compile(): the eviction across links.                                   *)
(***************************************************************************)
\* the fingerprints the cache holds, oldest first
StoreKeys == [j \in 1..Len(cacheStore) |-> cacheStore[j].key]

\* the n fingerprints committed last
Newest(n) == SubSeq(keyLog, Len(keyLog) - n + 1, Len(keyLog))

\* C17: the cache always holds the fingerprints committed last, and after
\* a compile() with config->ltoCache set it holds no more entries than the
\* policy allows: under "max 2 entries", three single-task compile() calls
\* with three distinct fingerprints leave exactly the second and the third
\* in the cache, the first run's entry is the one evicted.
C17_EvictsOldest ==
  /\ Len(cacheStore) <= Len(keyLog)
  /\ StoreKeys = Newest(Len(cacheStore))
  /\ (pc = "done" /\ ltoCache # NoCachePath) =>
       Len(cacheStore) <= ltoCachePolicy
  /\ (/\ pc = "done" /\ ltoCache # NoCachePath
      /\ ltoCachePolicy = 2
      /\ Len(keyLog) = 3
      /\ Cardinality({keyLog[j] : j \in 1..Len(keyLog)}) = 3) =>
       (/\ StoreKeys = <<keyLog[2], keyLog[3]>>
        /\ ~InCache(cacheStore, keyLog[1]))

C17_Witness ==
  /\ pc = "done"
  /\ ltoCache # NoCachePath
  /\ ltoCachePolicy = 2
  /\ changes = 2
  /\ Len(keyLog) = 3
  /\ Cardinality({keyLog[j] : j \in 1..Len(keyLog)}) = 3
  /\ evicted = 1
  /\ StoreKeys = <<keyLog[2], keyLog[3]>>

(***************************************************************************)
(* compile(): the objects per task and the diagnostic files.               *)
(***************************************************************************)
\* the positions of ret that hold an object of task t
RetOf(t) == {j \in 1..Len(ret) : ret[j].task = t}

\* C18: after a compile() that returned, no task has both a non-empty buf
\* slot and a file from the cache, ret holds at most maxTasks objects, and a
\* task has exactly one object in ret when it has code and none otherwise.
C18_OneBlobPerTask ==
  pc = "done" =>
    /\ Len(ret) <= maxTasks
    /\ \A t \in 1..maxTasks :
         /\ ~(buf[t] # <<>> /\ files[t].present)
         /\ Cardinality(RetOf(t)) = (IF t \in CodeTasks THEN 1 ELSE 0)
         /\ \A j \in RetOf(t) : ret[j].data = Obj(units[t])

C18_Witness ==
  /\ pc = "done"
  /\ ltoCache # NoCachePath
  /\ hitTasks # {}
  /\ readFailed # {}
  /\ compiledTasks \ readFailed # {}
  /\ Len(ret) = maxTasks

\* the positions of saved that hold a diagnostic file of task t
SavedOf(t) == {j \in 1..Len(saved) : saved[j].task = t}

\* the name of the diagnostic file of task t, which is unit t - 1
LtoObjName(t) ==
  IF t = 1 THEN OutputFile \o LtoObjSuffix
  ELSE OutputFile \o <<ToString(t - 1)>> \o LtoObjSuffix

\* C19: a compile() that returned has written, under /lldsavetemps, one
\* diagnostic file for every task with a non-empty buf slot, holding that
\* buffer, named <output>.lto.obj for unit 0 and <output><i>.lto.obj for
\* unit i > 0 and written when ret held the objects of the earlier units
\* only; it has written none for an empty slot or a file from the cache,
\* and none at all without /lldsavetemps.  The names of distinct units
\* differ (the names depend on the index alone and are compared once,
\* before compile() starts).
C19_SaveTempsFiles ==
  /\ pc = "idle" =>
       \A i, j \in 0..(Len(DigitChars) + MaxTasks) :
         i # j => SaveName(OutputFile, i) # SaveName(OutputFile, j)
  /\ pc = "done" =>
       /\ ~saveTemps => saved = <<>>
       /\ \A t \in 1..maxTasks :
            Cardinality(SavedOf(t)) =
              (IF saveTemps /\ buf[t] # <<>> THEN 1 ELSE 0)
       /\ \A j \in 1..Len(saved) :
            /\ saved[j].name = LtoObjName(saved[j].task)
            /\ saved[j].data = buf[saved[j].task]
            /\ saved[j].retLen < Len(ret)
            /\ ret[saved[j].retLen + 1].task = saved[j].task
            /\ ret[saved[j].retLen + 1].from = "buf"
       /\ \A i, j \in 1..Len(saved) :
            i # j => saved[i].name # saved[j].name

C19_Witness ==
  /\ pc = "done"
  /\ saveTemps
  /\ Len(buf) = MaxTasks
  /\ buf[1] = <<>>
  /\ Len(saved) = MaxTasks - 1
  /\ saved[1].retLen = 0
  /\ saved[1].name = OutputFile \o <<"1">> \o LtoObjSuffix

(***************************************************************************)
(* Symbol resolution: the order of the add() calls.                        *)
(***************************************************************************)
\* o is the first defining occurrence of its name in its module
FirstDefined(o) ==
  /\ OccDefined(o)
  /\ \A j \in 1..(o[2] - 1) :
       ~(OccName(<<o[1], j>>) = OccName(o) /\ OccDefined(<<o[1], j>>))

\* the verdict of o as the table before LTO and the modules determine it
FinalPrevailing(o) ==
  FirstDefined(o) /\ symtab0[OccName(o)].file = o[1]

\* whether n ends as an Undefined once every module has been added
FinalUndefined(n) ==
  \/ symtab0[n].kind = "Undefined"
  \/ symtab0[n].file \in Files /\ Defines(objSyms, symtab0[n].file, n)

\* C20: when add() has returned for every module, the prevailing flag and
\* the visibility flag of every occurrence and the set of linker-wide
\* symbols that are Undefined are determined by the modules and by the
\* symbol table before LTO alone: they are the same whatever the order of
\* the add() calls was.
C20_OrderIndependent ==
  (Added = Files /\ addFile = NoFile) =>
    /\ \A o \in Resolved :
         /\ OccPrevailing(o) = FinalPrevailing(o)
         /\ OccVisible(o) = symtab0[OccName(o)].isUsedInRegularObj
    /\ \A n \in Names :
         (symtab[n].kind = "Undefined") = FinalUndefined(n)

C20_Witness ==
  /\ Added = Files
  /\ addFile = NoFile
  /\ ltoObj[1].file = NumFiles
  /\ \E o \in Resolved, p \in Resolved :
       /\ o[1] # p[1]
       /\ OccName(o) = OccName(p)
       /\ OccDefined(o) /\ OccDefined(p)
       /\ OccPrevailing(o) /\ ~OccPrevailing(p)
       /\ o[1] = ltoObj[Len(ltoObj)].file


====
